---------------------------- MODULE Spec2Model ----------------------------
(***************************************************************************)
(* The Ard documentation site: the content files with their frontmatter,  *)
(* the Starlight configuration (astro.config.mjs) with its sidebar, the   *)
(* life cycle of pages under add-file / remove-file, the site build       *)
(* (read configuration, discover files by slug, render), and the fiber    *)
(* programs the Async Programming page documents.                         *)
(***************************************************************************)
EXTENDS Naturals, Sequences, FiniteSets

VARIABLES
    files,      \* the content files currently in the docs content directory
    pages,      \* slug -> (slug, title, description, body): the pages that exist
    pc,         \* phase of the site build: idle, configured, discovered, done, failed
    cfg,        \* the configuration the running build has read
    found,      \* the pages the running build has discovered, by slug
    site,       \* the generated site (pages and navigation) of a finished build
    err,        \* the errors a failed build reports
    prog,       \* the documented fiber program that is running
    fpc,        \* fiber -> index of its next instruction
    status,     \* fiber -> unstarted, running, sleeping, done
    timer,      \* fiber -> ticks left of its current async::sleep
    out,        \* what io::print has written so far, in order
    global_counter, \* the mutable variable the fibers of the race example share
    local,      \* fiber -> the value of global_counter it has read
    example,    \* the documented example function that is being evaluated
    mem         \* the variables of that example

siteVars == <<files, pages, pc, cfg, found, site, err>>
fiberVars == <<prog, fpc, status, timer, out, global_counter, local>>
sharedVars == <<global_counter, local>>
exVars == <<example, mem>>
vars == <<files, pages, pc, cfg, found, site, err, prog, fpc, status, timer, out,
          global_counter, local, example, mem>>

-----------------------------------------------------------------------------
(* Bounds of the exploration.                                              *)

\* at most this many of the repository's content files are removed at once
MaxMissing == 2

\* one Tick of the fiber model stands for this many milliseconds of sleep
TickMs == 1000

-----------------------------------------------------------------------------
(* The content files, as src/ holds them: where each lies, its number of   *)
(* lines, the lines that are exactly "---", and the "key: value" lines     *)
(* between each pair of them (a quoted YAML value is given unquoted).      *)
(* The eight files under src/unnamed have no known name: dirs/stem give    *)
(* their place in src/, and UnnamedLocation places them in the site.       *)

\* part_000 with another title in its frontmatter.
part_000_retitled ==
    [id |-> "part_000", named |-> FALSE,
     dirs |-> <<"unnamed">>, prefix |-> "", stem |-> "part_000", ext |-> "",
     nlines |-> 53,
     delims |-> <<1, 4>>,
     keys |-> <<[line |-> 2, key |-> "title", value |-> "Install"],
               [line |-> 3, key |-> "description", value |-> "How to install and set up Ard on various platforms."]>>]

\* src/unnamed/part_000
part_000 ==
    [id |-> "part_000", named |-> FALSE,
     dirs |-> <<"unnamed">>, prefix |-> "", stem |-> "part_000", ext |-> "",
     nlines |-> 53,
     delims |-> <<1, 4>>,
     keys |-> <<[line |-> 2, key |-> "title", value |-> "Installation"],
               [line |-> 3, key |-> "description", value |-> "How to install and set up Ard on various platforms."]>>]

\* src/unnamed/part_001
part_001 ==
    [id |-> "part_001", named |-> FALSE,
     dirs |-> <<"unnamed">>, prefix |-> "", stem |-> "part_001", ext |-> "",
     nlines |-> 108,
     delims |-> <<1, 4>>,
     keys |-> <<[line |-> 2, key |-> "title", value |-> "Enums"],
               [line |-> 3, key |-> "description", value |-> "Learn about defining and using enums for representing discrete sets of values."]>>]

\* src/unnamed/part_002
part_002 ==
    [id |-> "part_002", named |-> FALSE,
     dirs |-> <<"unnamed">>, prefix |-> "", stem |-> "part_002", ext |-> "",
     nlines |-> 308,
     delims |-> <<1, 4, 212, 215>>,
     keys |-> <<[line |-> 2, key |-> "title", value |-> "Enums"],
               [line |-> 3, key |-> "description", value |-> "Learn about defining and using enums for representing discrete sets of values."],
               [line |-> 213, key |-> "title", value |-> "Variables"],
               [line |-> 214, key |-> "description", value |-> "Learn about variable declaration, mutability, and type inference in Ard."]>>]

\* src/unnamed/part_003
part_003 ==
    [id |-> "part_003", named |-> FALSE,
     dirs |-> <<"unnamed">>, prefix |-> "", stem |-> "part_003", ext |-> "",
     nlines |-> 257,
     delims |-> <<1, 4>>,
     keys |-> <<[line |-> 2, key |-> "title", value |-> "Error Handling"],
               [line |-> 3, key |-> "description", value |-> "Learn about Ard's approach to error handling using Result types and the try keyword."]>>]

\* src/unnamed/part_004
part_004 ==
    [id |-> "part_004", named |-> FALSE,
     dirs |-> <<"unnamed">>, prefix |-> "", stem |-> "part_004", ext |-> "",
     nlines |-> 171,
     delims |-> <<1, 4>>,
     keys |-> <<[line |-> 2, key |-> "title", value |-> "Functions"],
               [line |-> 3, key |-> "description", value |-> "Learn about function definition, parameters, return values, and advanced features in Ard."]>>]

\* src/unnamed/part_005
part_005 ==
    [id |-> "part_005", named |-> FALSE,
     dirs |-> <<"unnamed">>, prefix |-> "", stem |-> "part_005", ext |-> "",
     nlines |-> 354,
     delims |-> <<1, 4>>,
     keys |-> <<[line |-> 2, key |-> "title", value |-> "Traits"],
               [line |-> 3, key |-> "description", value |-> "Learn about defining and implementing traits for shared behavior in Ard."]>>]

\* src/unnamed/part_006
part_006 ==
    [id |-> "part_006", named |-> FALSE,
     dirs |-> <<"unnamed">>, prefix |-> "", stem |-> "part_006", ext |-> "",
     nlines |-> 161,
     delims |-> <<1, 4, 69, 72>>,
     keys |-> <<[line |-> 2, key |-> "title", value |-> "Traits"],
               [line |-> 3, key |-> "description", value |-> "Learn about defining and implementing traits for shared behavior in Ard."],
               [line |-> 70, key |-> "title", value |-> "WIP: Async Programming"],
               [line |-> 71, key |-> "description", value |-> "Learn about asynchronous programming in Ard using fibers and the async module."]>>]

\* src/unnamed/part_007
part_007 ==
    [id |-> "part_007", named |-> FALSE,
     dirs |-> <<"unnamed">>, prefix |-> "", stem |-> "part_007", ext |-> "",
     nlines |-> 310,
     delims |-> <<1, 4>>,
     keys |-> <<[line |-> 2, key |-> "title", value |-> "Async Programming"],
               [line |-> 3, key |-> "description", value |-> "Learn about asynchronous programming in Ard using fibers and the async module."]>>]

\* src/src/content/docs/advanced/generics.md
generics ==
    [id |-> "generics", named |-> TRUE,
     dirs |-> <<"src", "content", "docs", "advanced">>, prefix |-> "", stem |-> "generics", ext |-> "md",
     nlines |-> 304,
     delims |-> <<1, 4>>,
     keys |-> <<[line |-> 2, key |-> "title", value |-> "Generics"],
               [line |-> 3, key |-> "description", value |-> "Learn about generic programming in Ard using type parameters."]>>]

\* src/src/content/docs/examples/samples.md
samples ==
    [id |-> "samples", named |-> TRUE,
     dirs |-> <<"src", "content", "docs", "examples">>, prefix |-> "", stem |-> "samples", ext |-> "md",
     nlines |-> 411,
     delims |-> <<1, 4>>,
     keys |-> <<[line |-> 2, key |-> "title", value |-> "Code Samples"],
               [line |-> 3, key |-> "description", value |-> "Practical examples demonstrating Ard language features and common programming patterns."]>>]

\* src/src/content/docs/getting-started/_first-program.md
first_program ==
    [id |-> "first_program", named |-> TRUE,
     dirs |-> <<"src", "content", "docs", "getting-started">>, prefix |-> "_", stem |-> "first-program", ext |-> "md",
     nlines |-> 171,
     delims |-> <<1, 4, 129, 132>>,
     keys |-> <<[line |-> 2, key |-> "title", value |-> "Your First Program"],
               [line |-> 3, key |-> "description", value |-> "Write and run your first Ard program."],
               [line |-> 130, key |-> "title", value |-> "Introduction"],
               [line |-> 131, key |-> "description", value |-> "Learn about Ard's philosophy, design goals, and key features."]>>]

\* src/src/content/docs/getting-started/introduction.md
introduction ==
    [id |-> "introduction", named |-> TRUE,
     dirs |-> <<"src", "content", "docs", "getting-started">>, prefix |-> "", stem |-> "introduction", ext |-> "md",
     nlines |-> 49,
     delims |-> <<1, 4>>,
     keys |-> <<[line |-> 2, key |-> "title", value |-> "Introduction"],
               [line |-> 3, key |-> "description", value |-> "Learn about Ard's philosophy, design goals, and key features."]>>]

\* src/src/content/docs/guide/control-flow.md
control_flow ==
    [id |-> "control_flow", named |-> TRUE,
     dirs |-> <<"src", "content", "docs", "guide">>, prefix |-> "", stem |-> "control-flow", ext |-> "md",
     nlines |-> 221,
     delims |-> <<1, 4>>,
     keys |-> <<[line |-> 2, key |-> "title", value |-> "Control Flow"],
               [line |-> 3, key |-> "description", value |-> "Learn about conditional statements, loops, and pattern matching in Ard."]>>]

\* functions.md saved under the name of types.md's page (guide/types.mdx).
functions_at_types ==
    [id |-> "functions", named |-> TRUE,
     dirs |-> <<"src", "content", "docs", "guide">>, prefix |-> "", stem |-> "types", ext |-> "mdx",
     nlines |-> 113,
     delims |-> <<1, 4>>,
     keys |-> <<[line |-> 2, key |-> "title", value |-> "Functions"],
               [line |-> 3, key |-> "description", value |-> "Learn about function definition, parameters, return values, and advanced features in Ard."]>>]

\* src/src/content/docs/guide/functions.md
functions ==
    [id |-> "functions", named |-> TRUE,
     dirs |-> <<"src", "content", "docs", "guide">>, prefix |-> "", stem |-> "functions", ext |-> "md",
     nlines |-> 113,
     delims |-> <<1, 4>>,
     keys |-> <<[line |-> 2, key |-> "title", value |-> "Functions"],
               [line |-> 3, key |-> "description", value |-> "Learn about function definition, parameters, return values, and advanced features in Ard."]>>]

\* src/src/content/docs/guide/modules.md
modules ==
    [id |-> "modules", named |-> TRUE,
     dirs |-> <<"src", "content", "docs", "guide">>, prefix |-> "", stem |-> "modules", ext |-> "md",
     nlines |-> 674,
     delims |-> <<1, 4, 291, 294, 533, 536>>,
     keys |-> <<[line |-> 2, key |-> "title", value |-> "Modules"],
               [line |-> 3, key |-> "description", value |-> "Learn about Ard's module system, imports, and code organization."],
               [line |-> 292, key |-> "title", value |-> "Structs"],
               [line |-> 293, key |-> "description", value |-> "Learn about defining and using structs, methods, and static functions in Ard."],
               [line |-> 534, key |-> "title", value |-> "Structs"],
               [line |-> 535, key |-> "description", value |-> "Learn about defining and using structs, methods, and static functions in Ard."]>>]

\* src/src/content/docs/guide/pattern-matching.md
pattern_matching ==
    [id |-> "pattern_matching", named |-> TRUE,
     dirs |-> <<"src", "content", "docs", "guide">>, prefix |-> "", stem |-> "pattern-matching", ext |-> "md",
     nlines |-> 265,
     delims |-> <<1, 4>>,
     keys |-> <<[line |-> 2, key |-> "title", value |-> "Pattern Matching"],
               [line |-> 3, key |-> "description", value |-> "Learn about Ard's powerful pattern matching with match expressions."]>>]

\* src/src/content/docs/guide/types.md
types ==
    [id |-> "types", named |-> TRUE,
     dirs |-> <<"src", "content", "docs", "guide">>, prefix |-> "", stem |-> "types", ext |-> "md",
     nlines |-> 204,
     delims |-> <<1, 4>>,
     keys |-> <<[line |-> 2, key |-> "title", value |-> "Types"],
               [line |-> 3, key |-> "description", value |-> "Overview of Ard's type system including built-in types, type unions, and nullable values."]>>]

\* variables.md with its description line left out.
variables_no_description ==
    [id |-> "variables", named |-> TRUE,
     dirs |-> <<"src", "content", "docs", "guide">>, prefix |-> "", stem |-> "variables", ext |-> "md",
     nlines |-> 117,
     delims |-> <<1, 3>>,
     keys |-> <<[line |-> 2, key |-> "title", value |-> "Variables & Constants"]>>]

\* src/src/content/docs/guide/variables.md
variables ==
    [id |-> "variables", named |-> TRUE,
     dirs |-> <<"src", "content", "docs", "guide">>, prefix |-> "", stem |-> "variables", ext |-> "md",
     nlines |-> 118,
     delims |-> <<1, 4>>,
     keys |-> <<[line |-> 2, key |-> "title", value |-> "Variables & Constants"],
               [line |-> 3, key |-> "description", value |-> "Learn about variable declaration, mutability, and type inference in Ard."]>>]
RepoFiles ==
    {part_000, part_001, part_002, part_003, part_004, part_005, part_006,
     part_007, generics, samples, first_program, introduction, control_flow,
     functions, modules, pattern_matching, types, variables}

\* Files an author may add to the content directory: a well-formed Structs
\* page at guide/structs.md, and a note that has no frontmatter at all.
new_structs ==
    [id |-> "new_structs", named |-> TRUE,
     dirs |-> <<"src", "content", "docs", "guide">>, prefix |-> "", stem |-> "structs", ext |-> "md",
     nlines |-> 10,
     delims |-> <<1, 4>>,
     keys |-> <<[line |-> 2, key |-> "title", value |-> "Structs"],
               [line |-> 3, key |-> "description", value |-> "Learn about defining and using structs, methods, and static functions in Ard."]>>]

new_note ==
    [id |-> "new_note", named |-> TRUE,
     dirs |-> <<"src", "content", "docs", "guide">>, prefix |-> "", stem |-> "notes", ext |-> "md",
     nlines |-> 3,
     delims |-> <<>>,
     keys |-> <<>>]

AuthoredFiles == {new_structs, new_note}

Universe == RepoFiles \cup AuthoredFiles

-----------------------------------------------------------------------------
(* The site configuration: the object passed to starlight() in             *)
(* astro.config.mjs.                                                       *)

\* A social link written without its label.
SocialNoLabel ==
    << [icon |-> "github", href |-> "https://github.com/akonwi/ard"] >>

Social ==
    << [icon |-> "github", label |-> "GitHub", href |-> "https://github.com/akonwi/ard"] >>

\* The sidebar with the entry of line 25 in place, pointing at the
\* Installation page.
SidebarDuplicated ==
    << [label |-> "Getting Started",
        items |-> << [label |-> "Introduction", slug |-> "getting-started/introduction"],
                     [label |-> "Installation", slug |-> "getting-started/installation"],
                     [label |-> "Your First Program", slug |-> "getting-started/installation"] >>],
       [label |-> "Language Guide",
        items |-> << [label |-> "Variables", slug |-> "guide/variables"],
                     [label |-> "Functions", slug |-> "guide/functions"],
                     [label |-> "Control Flow", slug |-> "guide/control-flow"],
                     [label |-> "Types", slug |-> "guide/types"],
                     [label |-> "Structs", slug |-> "guide/structs"],
                     [label |-> "Enums", slug |-> "guide/enums"],
                     [label |-> "Pattern Matching", slug |-> "guide/pattern-matching"],
                     [label |-> "Error Handling", slug |-> "guide/error-handling"],
                     [label |-> "Modules", slug |-> "guide/modules"] >>],
       [label |-> "Advanced Topics",
        items |-> << [label |-> "Async Programming", slug |-> "advanced/async"],
                     [label |-> "Traits", slug |-> "advanced/traits"],
                     [label |-> "Generics", slug |-> "advanced/generics"] >>],
       [label |-> "Examples",
        items |-> << [label |-> "Code Samples", slug |-> "examples/samples"] >>] >>

\* The sidebar with the Examples group moved before Advanced Topics and the
\* first two items of Getting Started swapped.
SidebarReordered ==
    << [label |-> "Getting Started",
        items |-> << [label |-> "Installation", slug |-> "getting-started/installation"],
                     [label |-> "Introduction", slug |-> "getting-started/introduction"] >>],
       [label |-> "Language Guide",
        items |-> << [label |-> "Variables", slug |-> "guide/variables"],
                     [label |-> "Functions", slug |-> "guide/functions"],
                     [label |-> "Control Flow", slug |-> "guide/control-flow"],
                     [label |-> "Types", slug |-> "guide/types"],
                     [label |-> "Structs", slug |-> "guide/structs"],
                     [label |-> "Enums", slug |-> "guide/enums"],
                     [label |-> "Pattern Matching", slug |-> "guide/pattern-matching"],
                     [label |-> "Error Handling", slug |-> "guide/error-handling"],
                     [label |-> "Modules", slug |-> "guide/modules"] >>],
       [label |-> "Examples",
        items |-> << [label |-> "Code Samples", slug |-> "examples/samples"] >>],
       [label |-> "Advanced Topics",
        items |-> << [label |-> "Async Programming", slug |-> "advanced/async"],
                     [label |-> "Traits", slug |-> "advanced/traits"],
                     [label |-> "Generics", slug |-> "advanced/generics"] >>] >>

Sidebar ==
    << [label |-> "Getting Started",
        items |-> << [label |-> "Introduction", slug |-> "getting-started/introduction"],
                     [label |-> "Installation", slug |-> "getting-started/installation"] >>],
       [label |-> "Language Guide",
        items |-> << [label |-> "Variables", slug |-> "guide/variables"],
                     [label |-> "Functions", slug |-> "guide/functions"],
                     [label |-> "Control Flow", slug |-> "guide/control-flow"],
                     [label |-> "Types", slug |-> "guide/types"],
                     [label |-> "Structs", slug |-> "guide/structs"],
                     [label |-> "Enums", slug |-> "guide/enums"],
                     [label |-> "Pattern Matching", slug |-> "guide/pattern-matching"],
                     [label |-> "Error Handling", slug |-> "guide/error-handling"],
                     [label |-> "Modules", slug |-> "guide/modules"] >>],
       [label |-> "Advanced Topics",
        items |-> << [label |-> "Async Programming", slug |-> "advanced/async"],
                     [label |-> "Traits", slug |-> "advanced/traits"],
                     [label |-> "Generics", slug |-> "advanced/generics"] >>],
       [label |-> "Examples",
        items |-> << [label |-> "Code Samples", slug |-> "examples/samples"] >>] >>

Config ==
    [title |-> "Ard Language",
     description |-> "A modern, statically-typed programming language designed for clarity, safety, and ease.",
     social |-> Social,
     sidebar |-> Sidebar]

\* The (group, item) positions of a sidebar and the slugs it references.
SidebarEntries(sb) ==
    UNION {{<<g, i>> : i \in DOMAIN sb[g].items} : g \in DOMAIN sb}

SidebarSlugs(sb) == {sb[e[1]].items[e[2]].slug : e \in SidebarEntries(sb)}

-----------------------------------------------------------------------------
(* Location and slug of a content file.                                    *)

\* The docs content directory, relative to the repository root.
ContentRoot == <<"src", "content", "docs">>

\* Where an unnamed file lies.  src/ does not hold the names of the files
\* under src/unnamed; the sidebar entry whose label is the file's title
\* names the page it is (the entry labelled Installation resolves to the
\* file titled Installation).  Of two files with one title the first one in
\* src/ takes the entry's location and the other stays where src/ has it,
\* as does part_004, whose title guide/functions.md already carries.
UnnamedLocation(f) ==
    CASE f.id = "part_000" ->
           [dirs |-> ContentRoot \o <<"getting-started">>, prefix |-> "", stem |-> "installation", ext |-> "md"]
      [] f.id = "part_001" ->
           [dirs |-> ContentRoot \o <<"guide">>, prefix |-> "", stem |-> "enums", ext |-> "md"]
      [] f.id = "part_003" ->
           [dirs |-> ContentRoot \o <<"guide">>, prefix |-> "", stem |-> "error-handling", ext |-> "md"]
      [] f.id = "part_005" ->
           [dirs |-> ContentRoot \o <<"advanced">>, prefix |-> "", stem |-> "traits", ext |-> "md"]
      [] f.id = "part_007" ->
           [dirs |-> ContentRoot \o <<"advanced">>, prefix |-> "", stem |-> "async", ext |-> "md"]
      [] OTHER ->
           [dirs |-> ContentRoot \o f.dirs, prefix |-> f.prefix, stem |-> f.stem, ext |-> f.ext]

Path(f) ==
    IF f.named
    THEN [dirs |-> f.dirs, prefix |-> f.prefix, stem |-> f.stem, ext |-> f.ext]
    ELSE UnnamedLocation(f)

RECURSIVE JoinSlash(_)
JoinSlash(segs) ==
    IF segs = <<>> THEN ""
    ELSE Head(segs) \o "/" \o JoinSlash(Tail(segs))

\* The slug: the file's location below the content directory, without the
\* extension, its segments joined by "/".
Slug(f) ==
    LET p == Path(f)
        below == SubSeq(p.dirs, Len(ContentRoot) + 1, Len(p.dirs))
    IN  JoinSlash(below) \o p.prefix \o p.stem

-----------------------------------------------------------------------------
(* Frontmatter: the "key: value" lines between the "---" of line 1 and the *)
(* next "---".                                                             *)

HasFrontmatter(f) == Len(f.delims) >= 2 /\ f.delims[1] = 1

\* The value of key k in the frontmatter of f, "" when f has none.
Field(f, k) ==
    LET in == {i \in DOMAIN f.keys :
                  /\ HasFrontmatter(f)
                  /\ f.keys[i].key = k
                  /\ f.delims[1] < f.keys[i].line
                  /\ f.keys[i].line < f.delims[2]}
    IN  IF in = {} THEN "" ELSE f.keys[CHOOSE i \in in : \A j \in in : i >= j].value

Title(f) == Field(f, "title")
Description(f) == Field(f, "description")

\* The "---"-delimited blocks of f that carry a title or a description.
Blocks(f) ==
    {n \in 1..(Len(f.delims) \div 2) :
        \E i \in DOMAIN f.keys :
            /\ f.delims[2 * n - 1] < f.keys[i].line
            /\ f.keys[i].line < f.delims[2 * n]}

Malformed(f) == ~HasFrontmatter(f) \/ Title(f) = "" \/ Description(f) = ""

\* The body: the lines after the frontmatter.
Body(f) ==
    IF HasFrontmatter(f)
    THEN [from |-> f.delims[2] + 1, to |-> f.nlines]
    ELSE [from |-> 1, to |-> f.nlines]

PageOf(f) ==
    [slug |-> Slug(f), title |-> Title(f), description |-> Description(f), body |-> Body(f)]

-----------------------------------------------------------------------------
(* Drafts and the links between pages.                                     *)

\* A file whose name starts with an underscore is a draft: the site does
\* not publish it.
Draft(f) == Path(f).prefix = "_"

PublishedSlugs(fs) == {Slug(f) : f \in {g \in fs : ~Draft(g)}}

\* A link of a page body to a place of the site: the segments of its path,
\* whether the path ends in "/", and the fragment after "#".
Link(line, segments, slash, fragment) ==
    [line |-> line, segments |-> segments, slash |-> slash, fragment |-> fragment]

\* The site-internal links of the body of f.
BodyLinks(f) ==
    CASE f.id = "part_000" ->
           { Link(53, <<"getting-started", "first-program">>, TRUE, "") }
      [] f.id = "part_001" ->
           { Link(102, <<"guide", "types">>, TRUE, "type-unions") }
      [] f.id = "first_program" ->
           { Link(128, <<"guide", "variables">>, TRUE, "") }
      [] f.id = "modules" ->
           { Link(652, <<"guide", "modules">>, FALSE, "") }
      [] OTHER -> {}

\* The slug a link points at: its path without the "/" at either end and
\* without the fragment.
LinkSlug(l) ==
    JoinSlash(SubSeq(l.segments, 1, Len(l.segments) - 1)) \o l.segments[Len(l.segments)]

-----------------------------------------------------------------------------
(* Page life cycle: a page is created by adding a Markdown file and        *)
(* destroyed by removing it; its identity is the slug.                     *)

PagesOf(fs) == [s \in {Slug(f) : f \in fs} |-> PageOf(CHOOSE f \in fs : Slug(f) = s)]

WithPage(ps, f) ==
    [s \in DOMAIN ps \cup {Slug(f)} |-> IF s = Slug(f) THEN PageOf(f) ELSE ps[s]]

WithoutPage(ps, f) == [s \in DOMAIN ps \ {Slug(f)} |-> ps[s]]

NoConfig == [title |-> "", description |-> "", social |-> <<>>, sidebar |-> <<>>]
NoPages == PagesOf({})
NoSite == [pages |-> NoPages, nav |-> <<>>]

AddFile(f) ==
    /\ pc = "idle"
    /\ f \notin files
    /\ files' = files \cup {f}
    /\ pages' = WithPage(pages, f)
    /\ UNCHANGED <<pc, cfg, found, site, err, fiberVars, exVars>>

RemoveFile(f) ==
    /\ pc = "idle"
    /\ f \in files
    /\ Cardinality((RepoFiles \ files) \cup ({f} \cap RepoFiles)) <= MaxMissing
    /\ files' = files \ {f}
    /\ pages' = WithoutPage(pages, f)
    /\ UNCHANGED <<pc, cfg, found, site, err, fiberVars, exVars>>

-----------------------------------------------------------------------------
(* The site build: read the configuration, discover the Markdown files by  *)
(* slug, render the pages with the sidebar as navigation.  A sidebar entry *)
(* whose slug no file has, or a file with malformed frontmatter, is an     *)
(* error the build reports instead of generating the site.                 *)

ReadConfig ==
    /\ pc = "idle"
    /\ pc' = "configured"
    /\ cfg' = Config
    /\ UNCHANGED <<files, pages, found, site, err, fiberVars, exVars>>

Discover ==
    /\ pc = "configured"
    /\ pc' = "discovered"
    /\ found' = PagesOf(files)
    /\ UNCHANGED <<files, pages, cfg, site, err, fiberVars, exVars>>

\* A build that checks the sidebar's slugs and not the frontmatter.
BuildErrorsLinksOnly ==
    {[kind |-> "missing-slug", what |-> s] : s \in SidebarSlugs(cfg.sidebar) \ DOMAIN found}

BuildErrors ==
    {[kind |-> "missing-slug", what |-> s] : s \in SidebarSlugs(cfg.sidebar) \ DOMAIN found}
    \cup {[kind |-> "malformed-frontmatter", what |-> f.id] : f \in {g \in files : Malformed(g)}}

\* The navigation: the groups and, in each, the links, in the sidebar's order.
Nav(sb) ==
    [g \in DOMAIN sb |->
        [label |-> sb[g].label,
         links |-> [i \in DOMAIN sb[g].items |->
                       [label |-> sb[g].items[i].label,
                        href |-> "/" \o sb[g].items[i].slug \o "/"]]]]

\* A build that deletes the drafts it has passed over.
RenderOkCleansUp ==
    /\ pc = "discovered"
    /\ BuildErrors = {}
    /\ pc' = "done"
    /\ site' = [pages |-> found, nav |-> Nav(cfg.sidebar)]
    /\ files' = {f \in files : ~Draft(f)}
    /\ UNCHANGED <<pages, cfg, found, err, fiberVars, exVars>>

RenderOk ==
    /\ pc = "discovered"
    /\ BuildErrors = {}
    /\ pc' = "done"
    /\ site' = [pages |-> found, nav |-> Nav(cfg.sidebar)]
    /\ UNCHANGED <<files, pages, cfg, found, err, fiberVars, exVars>>

RenderFail ==
    /\ pc = "discovered"
    /\ BuildErrors # {}
    /\ pc' = "failed"
    /\ err' = BuildErrors
    /\ UNCHANGED <<files, pages, cfg, found, site, fiberVars, exVars>>

\* The build's process ends; the next build starts over.
Finish ==
    /\ pc \in {"done", "failed"}
    /\ pc' = "idle"
    /\ cfg' = NoConfig
    /\ found' = NoPages
    /\ site' = NoSite
    /\ err' = {}
    /\ UNCHANGED <<files, pages, fiberVars, exVars>>

FibersIdle ==
    /\ prog = "none"
    /\ fpc = <<>>
    /\ status = <<>>
    /\ timer = <<>>
    /\ out = <<>>
    /\ global_counter = 0
    /\ local = <<>>

ExamplesIdle ==
    /\ example = "none"
    /\ mem = <<>>

SiteInit ==
    /\ files = RepoFiles
    /\ pages = PagesOf(RepoFiles)
    /\ pc = "idle"
    /\ cfg = NoConfig
    /\ found = NoPages
    /\ site = NoSite
    /\ err = {}

Init == SiteInit /\ FibersIdle /\ ExamplesIdle

Next ==
    \/ \E f \in Universe : AddFile(f)
    \/ \E f \in Universe : RemoveFile(f)
    \/ ReadConfig
    \/ Discover
    \/ RenderOk
    \/ RenderFail
    \/ Finish

Spec == Init /\ [][Next]_vars

-----------------------------------------------------------------------------
(* The fiber programs of the Async Programming page.  A program is, per    *)
(* fiber, the sequence of its calls: io::print, async::sleep,              *)
(* async::start (which starts another fiber) and fiber.wait().            *)

Digit(d) ==
    CASE d = 0 -> "0" [] d = 1 -> "1" [] d = 2 -> "2" [] d = 3 -> "3" [] d = 4 -> "4"
      [] d = 5 -> "5" [] d = 6 -> "6" [] d = 7 -> "7" [] d = 8 -> "8" [] d = 9 -> "9"

\* Int.to_str(): the decimal digits of n.
RECURSIVE to_str(_)
to_str(n) == IF n < 10 THEN Digit(n) ELSE to_str(n \div 10) \o Digit(n % 10)

PrintI(text) == [op |-> "print", text |-> text, ms |-> 0, fiber |-> ""]
SleepI(ms) == [op |-> "sleep", text |-> "", ms |-> ms, fiber |-> ""]
StartI(t) == [op |-> "start", text |-> "", ms |-> 0, fiber |-> t]
WaitI(t) == [op |-> "wait", text |-> "", ms |-> 0, fiber |-> t]
\* `global_counter =+ 1` reads the variable and then writes the sum.
LoadI == [op |-> "load", text |-> "", ms |-> 0, fiber |-> ""]
StoreI == [op |-> "store", text |-> "", ms |-> 0, fiber |-> ""]

\* `for i in lo..hi { body(i) }`: the range includes both ends and ascends.
RECURSIVE Flatten(_)
Flatten(ss) == IF ss = <<>> THEN <<>> ELSE Head(ss) \o Flatten(Tail(ss))

\* A range that leaves out its upper end.
ForRangeHalfOpen(lo, hi, body) ==
    IF lo >= hi THEN <<>> ELSE Flatten([k \in 1..(hi - lo) |-> body[lo + k - 1]])

\* body maps each i of the range to the calls of one pass of the loop.
ForRange(lo, hi, body) ==
    IF lo > hi THEN <<>> ELSE Flatten([k \in 1..(hi - lo + 1) |-> body[lo + k - 1]])

\* `for i in lo..hi step d { body(i) }`: lo, lo + d, ... up to and including hi.
ForRangeStep(lo, hi, d, body) ==
    ForRange(0, (hi - lo) \div d, [k \in 0..((hi - lo) \div d) |-> body[lo + k * d]])

\* "Numeric Ranges"
RangesMain ==
    ForRange(1, 10, [i \in 1..10 |-> << PrintI(to_str(i)) >>])
    \o ForRangeStep(0, 100, 10, [i \in 0..100 |-> << PrintI(to_str(i)) >>])

\* "Waiting for Fibers"
WaitingMain == << PrintI("1"), StartI("fiber"), WaitI("fiber"), PrintI("3") >>
WaitingFiber == << SleepI(5000), PrintI("2") >>

\* main with the fiber started before "1" is printed.
ConcurrentMainStartFirst == << StartI("fiber"), PrintI("1"), PrintI("3") >>

\* "Concurrent Execution"
ConcurrentMain == << PrintI("1"), StartI("fiber"), PrintI("3") >>
ConcurrentFiber == << PrintI("2") >>

\* "Background Task with Periodic Execution"
periodic_task(interval_ms, max_iterations) ==
    ForRange(1, max_iterations,
             [i \in 1..max_iterations |->
                 << PrintI("Background task iteration " \o to_str(i)), SleepI(interval_ms) >>])

PeriodicMain ==
    << PrintI("Starting background task..."), StartI("background") >>
    \o ForRange(1, 3, [i \in 1..3 |-> << PrintI("Main task work " \o to_str(i)), SleepI(3000) >>])
    \o << WaitI("background"), PrintI("All tasks completed") >>

\* "Producer-Consumer Pattern"
ProducerItems == <<"apple", "banana", "cherry", "date">>

producer(items) ==
    Flatten([k \in DOMAIN items |-> << PrintI("Producing: " \o items[k]), SleepI(500) >>])
    \o << PrintI("Producer finished") >>

consumer(count) ==
    ForRange(1, count, [i \in 1..count |-> << SleepI(800), PrintI("Consumed item " \o to_str(i)) >>])
    \o << PrintI("Consumer finished") >>

ProducerConsumerMain ==
    << StartI("producer_fiber"), StartI("consumer_fiber"),
       WaitI("producer_fiber"), WaitI("consumer_fiber") >>

\* "Avoid Shared Mutable State": two fibers, each `global_counter =+ 1`.
RaceMain == << StartI("fiber1"), StartI("fiber2") >>
RaceFiber == << LoadI, StoreI >>

Programs == {"waiting", "concurrent", "periodic", "ranges", "producer_consumer", "race"}

Code(p) ==
    CASE p = "waiting" -> [f \in {"main", "fiber"} |-> IF f = "main" THEN WaitingMain ELSE WaitingFiber]
      [] p = "concurrent" -> [f \in {"main", "fiber"} |-> IF f = "main" THEN ConcurrentMain ELSE ConcurrentFiber]
      [] p = "periodic" -> [f \in {"main", "background"} |-> IF f = "main" THEN PeriodicMain ELSE periodic_task(2000, 5)]
      [] p = "ranges" -> [f \in {"main"} |-> RangesMain]
      [] p = "producer_consumer" ->
           [f \in {"main", "producer_fiber", "consumer_fiber"} |->
               CASE f = "main" -> ProducerConsumerMain
                 [] f = "producer_fiber" -> producer(ProducerItems)
                 [] f = "consumer_fiber" -> consumer(4)]
      [] p = "race" -> [f \in {"main", "fiber1", "fiber2"} |-> IF f = "main" THEN RaceMain ELSE RaceFiber]
      [] OTHER -> <<>>

Fibers == DOMAIN Code(prog)

\* The next call of fiber f, when f is running and has one.
AtCall(f, op) ==
    /\ status[f] = "running"
    /\ fpc[f] <= Len(Code(prog)[f])
    /\ Code(prog)[f][fpc[f]].op = op

Instr(f) == Code(prog)[f][fpc[f]]

Ticks(ms) == (ms + TickMs - 1) \div TickMs

\* io::print(text)
io_print(f) ==
    /\ AtCall(f, "print")
    /\ out' = Append(out, Instr(f).text)
    /\ fpc' = [fpc EXCEPT ![f] = @ + 1]
    /\ UNCHANGED <<prog, status, timer, sharedVars, siteVars, exVars>>

\* async::start(fn() { ... }): the callback starts running as a fiber of its
\* own; the caller goes on.
async_start(f) ==
    /\ AtCall(f, "start")
    /\ status[Instr(f).fiber] = "unstarted"
    /\ status' = [status EXCEPT ![Instr(f).fiber] = "running"]
    /\ fpc' = [fpc EXCEPT ![f] = @ + 1]
    /\ UNCHANGED <<prog, timer, out, sharedVars, siteVars, exVars>>

\* async::sleep(ms): the calling fiber sleeps, the others go on.
async_sleep(f) ==
    /\ AtCall(f, "sleep")
    /\ status' = [status EXCEPT ![f] = "sleeping"]
    /\ timer' = [timer EXCEPT ![f] = Ticks(Instr(f).ms)]
    /\ fpc' = [fpc EXCEPT ![f] = @ + 1]
    /\ UNCHANGED <<prog, out, sharedVars, siteVars, exVars>>

\* Time passes for every sleeping fiber.
Tick ==
    /\ \E f \in Fibers : status[f] = "sleeping" /\ timer[f] > 0
    /\ timer' = [f \in Fibers |-> IF status[f] = "sleeping" /\ timer[f] > 0 THEN timer[f] - 1 ELSE timer[f]]
    /\ UNCHANGED <<prog, fpc, status, out, sharedVars, siteVars, exVars>>

Wake(f) ==
    /\ f \in Fibers
    /\ status[f] = "sleeping"
    /\ timer[f] = 0
    /\ status' = [status EXCEPT ![f] = "running"]
    /\ UNCHANGED <<prog, fpc, timer, out, sharedVars, siteVars, exVars>>

\* `global_counter =+ 1`, first half: the fiber reads the shared variable.
load(f) ==
    /\ AtCall(f, "load")
    /\ local' = [local EXCEPT ![f] = global_counter]
    /\ fpc' = [fpc EXCEPT ![f] = @ + 1]
    /\ UNCHANGED <<prog, status, timer, out, global_counter, siteVars, exVars>>

\* `=+ 1` taken as the assignment of +1.
AssignedOne(v) == 1

\* `=+ 1`: the value read, plus 1.
Incremented(v) == v + 1

\* `global_counter =+ 1`, second half: the fiber writes the sum back.
store(f) ==
    /\ AtCall(f, "store")
    /\ global_counter' = Incremented(local[f])
    /\ fpc' = [fpc EXCEPT ![f] = @ + 1]
    /\ UNCHANGED <<prog, status, timer, out, local, siteVars, exVars>>

\* A wait() that returns as soon as the fiber has been started.
WaitReadyStarted(t) == status[t] # "unstarted"

\* fiber.wait() returns once the fiber has completed.
WaitReady(t) == status[t] = "done"

wait(f) ==
    /\ AtCall(f, "wait")
    /\ WaitReady(Instr(f).fiber)
    /\ fpc' = [fpc EXCEPT ![f] = @ + 1]
    /\ UNCHANGED <<prog, status, timer, out, sharedVars, siteVars, exVars>>

\* The fiber's function returns.
Return(f) ==
    /\ f \in Fibers
    /\ status[f] = "running"
    /\ fpc[f] > Len(Code(prog)[f])
    /\ status' = [status EXCEPT ![f] = "done"]
    /\ UNCHANGED <<prog, fpc, timer, out, sharedVars, siteVars, exVars>>

FibersStart ==
    /\ prog \in Programs
    /\ fpc = [f \in DOMAIN Code(prog) |-> 1]
    /\ status = [f \in DOMAIN Code(prog) |-> IF f = "main" THEN "running" ELSE "unstarted"]
    /\ timer = [f \in DOMAIN Code(prog) |-> 0]
    /\ out = <<>>
    /\ global_counter = 0
    /\ local = [f \in DOMAIN Code(prog) |-> 0]

FiberNext ==
    \/ \E f \in Fibers : io_print(f)
    \/ \E f \in Fibers : async_start(f)
    \/ \E f \in Fibers : async_sleep(f)
    \/ Tick
    \/ \E f \in Fibers : Wake(f)
    \/ \E f \in Fibers : wait(f)
    \/ \E f \in Fibers : Return(f)
    \/ \E f \in Fibers : load(f)
    \/ \E f \in Fibers : store(f)

FiberInit == SiteInit /\ FibersStart /\ ExamplesIdle

FiberSpec == FiberInit /\ [][FiberNext]_vars

\* A fiber that can run does run, and time passes for a sleeping fiber.
FairFiberSpec == FiberSpec /\ WF_vars(FiberNext)

-----------------------------------------------------------------------------
(* The examples of the guide that compute a value: each is run step by     *)
(* step on inputs drawn from a bounded set.                                 *)

MaxArg == 4
MaxValue == 121

\* Result::ok(value) and Result::err(error)
Result_ok(value) == [ok |-> TRUE, value |-> value, error |-> ""]
Result_err(error) == [ok |-> FALSE, value |-> 0, error |-> error]

\* fn divide(a: Int, b: Int) Result<Int, Str>
divide(a, b) == IF b = 0 THEN Result_err("Cannot divide by zero") ELSE Result_ok(a \div b)

\* A `try` that never leaves the function.
NeverPropagates(r) == FALSE

\* `try r`: the enclosing function returns r at once when r is an error.
Propagates(r) == ~r.ok

\* The divisors of the `try divide(_, d)` lines of a function, in order.
Divisors(m) ==
    CASE m.fn = "do_math" -> << m.b >>
      [] m.fn = "complex_calculation" -> << m.b, m.c, 2 >>

\* The last expression of the function, on the value of its last step.
LastExpression(m, v) ==
    CASE m.fn = "do_math" -> Result_ok(v + 10)
      [] m.fn = "complex_calculation" -> Result_ok(v * 100)

TryStart ==
    { [fn |-> fn, a |-> a, b |-> b, c |-> c, line |-> 1, value |-> a, divides |-> 0,
       returned |-> FALSE, result |-> Result_ok(0)] :
          fn \in {"do_math", "complex_calculation"},
          a \in 0..MaxArg \cup {10}, b \in 0..MaxArg, c \in 0..MaxArg }

\* `let stepN = try divide(value, d)`
try_divide ==
    /\ example = "try"
    /\ ~mem.returned
    /\ mem.line <= Len(Divisors(mem))
    /\ LET r == divide(mem.value, Divisors(mem)[mem.line])
       IN  IF Propagates(r)
           THEN mem' = [mem EXCEPT !.divides = @ + 1, !.returned = TRUE, !.result = r]
           ELSE mem' = [mem EXCEPT !.divides = @ + 1, !.line = @ + 1, !.value = r.value]
    /\ UNCHANGED <<example, siteVars, fiberVars>>

\* `Result::ok(...)`, the last expression, is the function's result.
try_return ==
    /\ example = "try"
    /\ ~mem.returned
    /\ mem.line > Len(Divisors(mem))
    /\ mem' = [mem EXCEPT !.returned = TRUE, !.result = LastExpression(mem, mem.value)]
    /\ UNCHANGED <<example, siteVars, fiberVars>>

\* The arms of a match on an Int: a value, a range lo..hi, or `_`.
IntArm(n, result) == [kind |-> "int", lo |-> n, hi |-> n, result |-> result]
RangeArm(lo, hi, result) == [kind |-> "range", lo |-> lo, hi |-> hi, result |-> result]
AnyArm(result) == [kind |-> "any", lo |-> 0, hi |-> 0, result |-> result]

Arms(fn) ==
    CASE fn = "grade" ->
           << RangeArm(0, 59, "F"), RangeArm(60, 69, "D"), RangeArm(70, 79, "C"),
              RangeArm(80, 89, "B"), RangeArm(90, 100, "A"), AnyArm("Invalid score") >>
      [] fn = "category" ->
           << IntArm(0, "newborn"), RangeArm(1, 12, "child"), RangeArm(13, 19, "teenager"),
              IntArm(21, "legal drinking age"), RangeArm(22, 64, "adult"),
              RangeArm(65, 120, "senior"), AnyArm("invalid age") >>
      [] fn = "number_good" ->
           << IntArm(42, "the answer"), RangeArm(40, 50, "forties"), AnyArm("other") >>
      [] fn = "number_problematic" ->
           << RangeArm(40, 50, "forties"), IntArm(42, "the answer"), AnyArm("other") >>
      [] fn = "age_group" ->
           << RangeArm(0, 12, "child"), RangeArm(13, 19, "teenager"), RangeArm(20, 64, "adult"),
              RangeArm(65, 120, "senior"), AnyArm("invalid age") >>
      [] fn = "special" ->
           << IntArm(21, "legal drinking age"), RangeArm(20, 25, "young adult"), AnyArm("other") >>
      [] fn = "value_good" ->
           << IntArm(0, "zero"), IntArm(1, "one"), RangeArm(2, 10, "small"),
              RangeArm(11, 100, "medium"), AnyArm("large") >>
      [] fn = "value_problematic" ->
           << RangeArm(0, 100, "small to medium"), IntArm(42, "the answer"), AnyArm("large") >>

Matches == {"grade", "category", "number_good", "number_problematic", "age_group",
            "special", "value_good", "value_problematic"}

\* A range pattern that leaves out its upper end.
CoversHalfOpen(arm, v) ==
    CASE arm.kind = "int" -> v = arm.lo
      [] arm.kind = "range" -> arm.lo <= v /\ v < arm.hi
      [] arm.kind = "any" -> TRUE

\* Does the pattern of the arm match v? Ranges are inclusive.
Covers(arm, v) ==
    CASE arm.kind = "int" -> v = arm.lo
      [] arm.kind = "range" -> arm.lo <= v /\ v <= arm.hi
      [] arm.kind = "any" -> TRUE

\* The arms are tried in the order they are written.
RECURSIVE FirstMatch(_, _, _)
FirstMatch(arms, v, i) ==
    IF i > Len(arms) THEN 0
    ELSE IF Covers(arms[i], v) THEN i
    ELSE FirstMatch(arms, v, i + 1)

MatchStart ==
    { [fn |-> fn, value |-> v, arm |-> 0, result |-> ""] :
          fn \in Matches, v \in (0 - 1)..MaxValue }

\* match value { ... }
match_eval ==
    /\ example = "match"
    /\ mem.arm = 0
    /\ LET i == FirstMatch(Arms(mem.fn), mem.value, 1)
       IN  mem' = [mem EXCEPT !.arm = i, !.result = Arms(mem.fn)[i].result]
    /\ UNCHANGED <<example, siteVars, fiberVars>>

MaxCalls == 3
MaxItems == 3
MaxPush == 3

ConnectionState == {"disconnected", "connecting", "connected", "error"}

\* A connection that is dropped by the next call.
handle_connection_drops(state, successful) ==
    CASE state = "disconnected" -> [state |-> "connecting", printed |-> "Attempting to connect..."]
      [] state = "connecting" ->
           [state |-> IF successful THEN "connected" ELSE "error", printed |-> ""]
      [] state = "connected" -> [state |-> "disconnected", printed |-> "Already connected"]
      [] state = "error" -> [state |-> "disconnected", printed |-> "Connection failed, retrying..."]

\* fn handle_connection(state: ConnectionState) ConnectionState, and the match
\* of connect(); successful is what connection_successful() returns.
handle_connection(state, successful) ==
    CASE state = "disconnected" -> [state |-> "connecting", printed |-> "Attempting to connect..."]
      [] state = "connecting" ->
           [state |-> IF successful THEN "connected" ELSE "error", printed |-> ""]
      [] state = "connected" -> [state |-> "connected", printed |-> "Already connected"]
      [] state = "error" -> [state |-> "disconnected", printed |-> "Connection failed, retrying..."]

\* mut state = ConnectionState::disconnected
ConnectionStart == { [state |-> "disconnected", printed |-> "", calls |-> 0, failures |-> 0] }

\* fn connect(): state = match state { ... }
connect ==
    /\ example = "connection"
    /\ mem.calls < 3 * MaxCalls
    /\ \E successful \in BOOLEAN :
          LET next == handle_connection(mem.state, successful)
          IN  mem' = [mem EXCEPT !.state = next.state, !.printed = next.printed,
                                 !.calls = @ + 1,
                                 !.failures = IF next.state = "error" THEN @ + 1 ELSE @]
    /\ UNCHANGED <<example, siteVars, fiberVars>>

\* A closure that returns the count it found.
counter_returns_old(count) == [count |-> Incremented(count), result |-> count]

\* fn() Int { count =+ 1  count }, on the count it has captured.
counter(count) == [count |-> Incremented(count), result |-> Incremented(count)]

\* fn make_counter(start: Int): mut count = start, captured by the closure.
make_counter(start) == [start |-> start, count |-> start, results |-> <<>>]

\* let counter = make_counter(10), and a second counter of its own.
CounterStart == { << make_counter(10), make_counter(start) >> : start \in 0..MaxArg }

\* counter()
counter_call(c) ==
    /\ example = "counter"
    /\ c \in DOMAIN mem
    /\ Len(mem[c].results) < MaxCalls
    /\ LET r == counter(mem[c].count)
       IN  mem' = [mem EXCEPT ![c].count = r.count, ![c].results = Append(@, r.result)]
    /\ UNCHANGED <<example, siteVars, fiberVars>>

RECURSIVE BoolSeqs(_)
BoolSeqs(n) ==
    IF n = 0 THEN { <<>> }
    ELSE BoolSeqs(n - 1) \cup { Append(s, b) : s \in BoolSeqs(n - 1), b \in BOOLEAN }

\* items[i] is what validate(item) returns for the i-th item.
ItemsStart ==
    { [items |-> items, i |-> 1, processed |-> <<>>, returned |-> FALSE, result |-> FALSE] :
          items \in BoolSeqs(MaxItems) }

\* One pass of `for item in items { match validate(item) { ... } }`: the arm
\* `true => process(item)` processes the item, the arm `false => false` is
\* the value of the match and the loop goes on.
process_items_pass ==
    /\ example = "process_items"
    /\ ~mem.returned
    /\ mem.i <= Len(mem.items)
    /\ mem' = [mem EXCEPT !.i = @ + 1,
                          !.processed = IF mem.items[mem.i] THEN Append(@, mem.i) ELSE @]
    /\ UNCHANGED <<example, siteVars, fiberVars>>

\* `true`, the last expression of process_items, is its result.
process_items_return ==
    /\ example = "process_items"
    /\ ~mem.returned
    /\ mem.i > Len(mem.items)
    /\ mem' = [mem EXCEPT !.returned = TRUE, !.result = TRUE]
    /\ UNCHANGED <<example, siteVars, fiberVars>>

some(value) == [some |-> TRUE, value |-> value]
none == [some |-> FALSE, value |-> 0]

\* Stack::new(): items: []
Stack_new == <<>>

\* fn mut push(item: $T)
Stack_push(items, item) == Append(items, item)

\* A pop that takes the oldest item.
Stack_pop_first(items) ==
    IF Len(items) = 0 THEN [items |-> items, result |-> none]
    ELSE [items |-> Tail(items), result |-> some(Head(items))]

\* fn mut pop() $T?
Stack_pop(items) ==
    IF Len(items) = 0 THEN [items |-> items, result |-> none]
    ELSE [items |-> SubSeq(items, 1, Len(items) - 1), result |-> some(items[Len(items)])]

\* fn peek() $T?
Stack_peek(items) == IF Len(items) = 0 THEN none ELSE some(items[Len(items)])

\* fn is_empty() Bool
Stack_is_empty(items) == Len(items) = 0

\* pushes and pops count the calls of push and the pops that returned an item;
\* live is the set of the items pushed and not yet popped; the n-th push
\* pushes the item n.
StackStart ==
    { [items |-> Stack_new, pushes |-> 0, pops |-> 0, live |-> {},
       op |-> "new", before |-> <<>>, result |-> none] }

stack_push ==
    /\ example = "stack"
    /\ mem.pushes < MaxPush
    /\ mem' = [mem EXCEPT !.items = Stack_push(@, mem.pushes + 1),
                          !.pushes = @ + 1,
                          !.live = @ \cup {mem.pushes + 1},
                          !.op = "push", !.before = mem.items, !.result = none]
    /\ UNCHANGED <<example, siteVars, fiberVars>>

stack_pop ==
    /\ example = "stack"
    /\ LET r == Stack_pop(mem.items)
       IN  mem' = [mem EXCEPT !.items = r.items,
                              !.pops = IF r.result.some THEN @ + 1 ELSE @,
                              !.live = IF r.result.some THEN @ \ {r.result.value} ELSE @,
                              !.op = "pop", !.before = mem.items, !.result = r.result]
    /\ UNCHANGED <<example, siteVars, fiberVars>>

stack_peek ==
    /\ example = "stack"
    /\ mem' = [mem EXCEPT !.op = "peek", !.before = mem.items, !.result = Stack_peek(mem.items)]
    /\ UNCHANGED <<example, siteVars, fiberVars>>

MaxEvents == 4

\* enum State, enum Event
State == {"idle", "running", "paused", "error"}
Event == {"start", "pause", "resume", "stop", "fail"}

\* handle_event with an error state that no event leaves.
handle_event_stuck(current_state, event) ==
    CASE current_state = "idle" ->
           (CASE event = "start" -> "running"
              [] OTHER -> "idle")
      [] current_state = "running" ->
           (CASE event = "pause" -> "paused"
              [] event = "stop" -> "idle"
              [] event = "fail" -> "error"
              [] OTHER -> "running")
      [] current_state = "paused" ->
           (CASE event = "resume" -> "running"
              [] event = "stop" -> "idle"
              [] OTHER -> "paused")
      [] current_state = "error" -> "error"

\* fn handle_event(current_state: State, event: Event) State
handle_event(current_state, event) ==
    CASE current_state = "idle" ->
           (CASE event = "start" -> "running"
              [] OTHER -> "idle")
      [] current_state = "running" ->
           (CASE event = "pause" -> "paused"
              [] event = "stop" -> "idle"
              [] event = "fail" -> "error"
              [] OTHER -> "running")
      [] current_state = "paused" ->
           (CASE event = "resume" -> "running"
              [] event = "stop" -> "idle"
              [] OTHER -> "paused")
      [] current_state = "error" ->
           (CASE event = "start" -> "running"
              [] OTHER -> "error")

\* The events that have an arm of their own in the match of a state.
Listed(current_state) ==
    CASE current_state = "idle" -> {"start"}
      [] current_state = "running" -> {"pause", "stop", "fail"}
      [] current_state = "paused" -> {"resume", "stop"}
      [] current_state = "error" -> {"start"}

\* The machine starts in State::idle; events holds the events handled.
EventStart == { [state |-> "idle", previous |-> "idle", events |-> <<>>] }

\* state = handle_event(state, event)
dispatch(event) ==
    /\ example = "handle_event"
    /\ Len(mem.events) < MaxEvents
    /\ mem' = [mem EXCEPT !.state = handle_event(mem.state, event),
                          !.previous = mem.state,
                          !.events = Append(@, event)]
    /\ UNCHANGED <<example, siteVars, fiberVars>>

\* enum TrafficLight
TrafficLight == {"red", "yellow", "green"}

\* A light that never shows yellow.
next_light_skips(current) ==
    CASE current = "red" -> "green"
      [] current = "yellow" -> "red"
      [] current = "green" -> "red"

\* fn next_light(current: TrafficLight) TrafficLight
next_light(current) ==
    CASE current = "red" -> "green"
      [] current = "yellow" -> "red"
      [] current = "green" -> "yellow"

\* fn light_duration(light: TrafficLight) Int
light_duration(light) ==
    CASE light = "red" -> 30
      [] light = "yellow" -> 5
      [] light = "green" -> 25

\* let name = match current { ... }
LightName(current) ==
    CASE current = "red" -> "RED"
      [] current = "yellow" -> "YELLOW"
      [] current = "green" -> "GREEN"

\* mut current = TrafficLight::red, before the first cycle of the loop.
TrafficStart == { [current |-> "red", cycle |-> 1, shown |-> <<>>, printed |-> <<>>] }

\* One pass of `for cycle in 1..10 { ... }` in main.
traffic_cycle ==
    /\ example = "traffic_light"
    /\ mem.cycle <= 10
    /\ mem' = [mem EXCEPT
                 !.printed = Append(@, "Cycle " \o to_str(mem.cycle) \o ": "
                                       \o LightName(mem.current) \o " light for "
                                       \o to_str(light_duration(mem.current)) \o " seconds"),
                 !.shown = Append(@, mem.current),
                 !.current = next_light(mem.current),
                 !.cycle = @ + 1]
    /\ UNCHANGED <<example, siteVars, fiberVars>>

Examples == {"try", "match", "connection", "counter", "process_items", "stack",
             "handle_event", "traffic_light"}

ExamplesStart ==
    /\ example \in Examples
    /\ mem \in CASE example = "try" -> TryStart
                 [] example = "match" -> MatchStart
                 [] example = "connection" -> ConnectionStart
                 [] example = "counter" -> CounterStart
                 [] example = "process_items" -> ItemsStart
                 [] example = "stack" -> StackStart
                 [] example = "handle_event" -> EventStart
                 [] example = "traffic_light" -> TrafficStart

ExampleInit == SiteInit /\ FibersIdle /\ ExamplesStart

ExampleNext ==
    \/ try_divide
    \/ try_return
    \/ match_eval
    \/ connect
    \/ \E c \in 1..2 : counter_call(c)
    \/ process_items_pass
    \/ process_items_return
    \/ stack_push
    \/ stack_pop
    \/ stack_peek
    \/ \E event \in Event : dispatch(event)
    \/ traffic_cycle

ExampleSpec == ExampleInit /\ [][ExampleNext]_vars

-----------------------------------------------------------------------------
(* Properties of the site.                                                 *)

IsPrefix(a, b) == Len(a) <= Len(b) /\ SubSeq(b, 1, Len(a)) = a

Resolving(s) == {f \in files : Slug(f) = s}

\* C1: link integrity.  With the repository's content files in place, every
\* item of every sidebar group references a slug that is the path-derived
\* slug of some content file.
LinkIntegrity ==
    files = RepoFiles =>
        \A s \in SidebarSlugs(Config.sidebar) : Resolving(s) # {}

\* C3: every content file of the repository has a frontmatter, opened on
\* line 1, with a title and a description, both non-empty; so has the page
\* made of it.
FrontmatterPresent ==
    \A f \in files \cap RepoFiles :
        /\ HasFrontmatter(f)
        /\ Title(f) # ""
        /\ Description(f) # ""
        /\ pages[Slug(f)].title # ""
        /\ pages[Slug(f)].description # ""

\* A build has discovered the pages of all the repository's files.
FrontmatterWitness ==
    /\ pc = "discovered"
    /\ RepoFiles \subseteq files
    /\ \A f \in RepoFiles : found[Slug(f)].title = Title(f) /\ Title(f) # ""

InstallationSlug == "getting-started/installation"

AuthoringMistake ==
    \/ \E s \in SidebarSlugs(Config.sidebar) : Resolving(s) = {}
    \/ \E f \in files : Malformed(f)

\* C5: a build ends failed, with every mistake reported and no site
\* generated, exactly when some sidebar entry references a slug that no
\* content file has or some content file has malformed frontmatter; it ends
\* done, with the site and no error, exactly when neither holds.
BuildFailsOnAuthoringMistake ==
    /\ pc \in {"done", "failed"} => (pc = "failed" <=> AuthoringMistake)
    /\ pc = "failed" =>
          /\ site = NoSite
          /\ err # {}
          /\ \A s \in SidebarSlugs(Config.sidebar) :
                Resolving(s) = {} => [kind |-> "missing-slug", what |-> s] \in err
          /\ \A f \in files :
                Malformed(f) => [kind |-> "malformed-frontmatter", what |-> f.id] \in err
    /\ pc = "done" => err = {} /\ site # NoSite

\* A build has failed on a file without frontmatter although every sidebar
\* slug resolves.
BuildFailureWitness ==
    /\ pc = "failed"
    /\ err = {[kind |-> "malformed-frontmatter", what |-> "new_note"]}

\* C6: the configuration a build reads is one object with the fields title,
\* description, social and sidebar; every social element has icon, label
\* and href; sidebar is a sequence of groups, each with a label and an
\* items sequence; every item has exactly a label and a slug, so no item is
\* itself a group.
ConfigShape ==
    pc # "idle" =>
        /\ cfg = Config
        /\ DOMAIN cfg = {"title", "description", "social", "sidebar"}
        /\ DOMAIN cfg.social = 1..Len(cfg.social)
        /\ \A i \in DOMAIN cfg.social : DOMAIN cfg.social[i] = {"icon", "label", "href"}
        /\ DOMAIN cfg.sidebar = 1..Len(cfg.sidebar)
        /\ \A g \in DOMAIN cfg.sidebar :
              /\ DOMAIN cfg.sidebar[g] = {"label", "items"}
              /\ DOMAIN cfg.sidebar[g].items = 1..Len(cfg.sidebar[g].items)
              /\ \A i \in DOMAIN cfg.sidebar[g].items :
                    DOMAIN cfg.sidebar[g].items[i] = {"label", "slug"}

\* A build has read the configuration: four groups, fifteen items, one
\* social link.
ConfigWitness ==
    /\ pc = "configured"
    /\ Len(cfg.sidebar) = 4
    /\ Cardinality(SidebarEntries(cfg.sidebar)) = 15
    /\ Len(cfg.social) = 1

PagesMatchFiles ==
    /\ DOMAIN pages = {Slug(f) : f \in files}
    /\ \A f \in files : pages[Slug(f)] = PageOf(f)

LifecycleStep ==
    \/ files' = files /\ pages' = pages
    \/ \E f \in files' \ files :
          /\ files' = files \cup {f}
          /\ Slug(f) \notin DOMAIN pages
          /\ DOMAIN pages' = DOMAIN pages \cup {Slug(f)}
          /\ pages'[Slug(f)] = PageOf(f)
          /\ \A s \in DOMAIN pages : pages'[s] = pages[s]
    \/ \E f \in files \ files' :
          /\ files' = files \ {f}
          /\ Slug(f) \in DOMAIN pages
          /\ DOMAIN pages' = DOMAIN pages \ {Slug(f)}
          /\ \A s \in DOMAIN pages' : pages'[s] = pages[s]

SingleFrontmatterBlock ==
    \A f \in files \cap RepoFiles :
        /\ HasFrontmatter(f)
        /\ Blocks(f) = {1}

PhaseStep ==
    \/ pc' = pc
    \/ <<pc, pc'>> \in {<<"idle", "configured">>, <<"configured", "discovered">>,
                        <<"discovered", "done">>, <<"discovered", "failed">>,
                        <<"done", "idle">>, <<"failed", "idle">>}

NavOrder ==
    /\ pc \in {"configured", "discovered", "done", "failed"} => cfg = Config
    /\ pc \in {"discovered", "done", "failed"} => found = PagesOf(files)
    /\ pc = "done" =>
          /\ site.pages = found
          /\ [g \in DOMAIN site.nav |-> site.nav[g].label]
                = <<"Getting Started", "Language Guide", "Advanced Topics", "Examples">>
          /\ site.nav[1].links[1].label = "Introduction"
          /\ site.nav[1].links[2].label = "Installation"
          /\ Len(site.nav) = Len(Config.sidebar)
          /\ \A g \in DOMAIN site.nav :
                /\ site.nav[g].label = Config.sidebar[g].label
                /\ Len(site.nav[g].links) = Len(Config.sidebar[g].items)
                /\ \A i \in DOMAIN site.nav[g].links :
                      /\ site.nav[g].links[i].label = Config.sidebar[g].items[i].label
                      /\ site.nav[g].links[i].href = "/" \o Config.sidebar[g].items[i].slug \o "/"

\* C9: a build reads the configuration, then discovers the Markdown files
\* by slug, then renders; the navigation of the generated site lists the
\* groups Getting Started, Language Guide, Advanced Topics, Examples and, in
\* each group, the items in the order the configuration declares them.
BuildOrderAndNavigation == [](NavOrder) /\ [][PhaseStep]_vars

\* A build has generated the site with its four navigation groups.
NavigationWitness ==
    /\ pc = "done"
    /\ Len(site.nav) = 4
    /\ Len(site.nav[2].links) = 9

-----------------------------------------------------------------------------
(* Properties of the fiber programs.                                       *)

Printed == {out[i] : i \in DOMAIN out}

WaitSafety ==
    /\ \A f \in Fibers : \A i \in DOMAIN Code(prog)[f] :
          (Code(prog)[f][i].op = "wait" /\ fpc[f] > i) =>
              LET t == Code(prog)[f][i].fiber
              IN  /\ status[t] = "done"
                  /\ \A j \in DOMAIN Code(prog)[t] :
                        Code(prog)[t][j].op = "print" => Code(prog)[t][j].text \in Printed
    /\ prog = "waiting" =>
          /\ IsPrefix(out, <<"1", "2", "3">>)
          /\ status["main"] = "done" => out = <<"1", "2", "3">>
    /\ prog = "periodic" =>
          ("All tasks completed" \in Printed =>
              \A i \in 1..5 : ("Background task iteration " \o to_str(i)) \in Printed)

\* C10: once fiber.wait() has returned in the caller, the fiber has
\* completed and everything it prints has been printed; every run of the
\* program of "Waiting for Fibers" prints 1, 2, 3 in that order and nothing
\* else, and "All tasks completed" comes after all five iterations of the
\* background task.
WaitReturnsAfterFiber ==
    /\ [](WaitSafety)
    /\ (prog = "waiting") ~> (out = <<"1", "2", "3">> /\ status["main"] = "done")

\* The program of "Waiting for Fibers" has run to its end.
WaitWitness ==
    /\ prog = "waiting"
    /\ status["main"] = "done"
    /\ status["fiber"] = "done"
    /\ out = <<"1", "2", "3">>

AllDone == \A f \in Fibers : status[f] = "done"

ConcurrentSafety ==
    prog = "concurrent" =>
        /\ out # <<>> => out[1] = "1"
        /\ IsPrefix(out, <<"1", "3", "2">>) \/ IsPrefix(out, <<"1", "2", "3">>)
        /\ AllDone => out \in {<<"1", "3", "2">>, <<"1", "2", "3">>}

\* C11: every run of the program of "Concurrent Execution" (print "1", start
\* a fiber that prints "2", print "3") prints 1, 3, 2 or 1, 2, 3: "1" is always
\* first, the order of "2" and "3" is left to the scheduler, and nothing else
\* is printed.
ConcurrentOutputs ==
    /\ [](ConcurrentSafety)
    /\ (prog = "concurrent") ~> (out \in {<<"1", "3", "2">>, <<"1", "2", "3">>})

\* main printed "3" before the fiber printed "2".
ConcurrentWitness ==
    /\ prog = "concurrent"
    /\ AllDone
    /\ out = <<"1", "3", "2">>

\* The other order: the fiber printed "2" before main printed "3".
ConcurrentOtherOrder ==
    /\ prog = "concurrent"
    /\ AllDone
    /\ out = <<"1", "2", "3">>

Stored(f) == fpc[f] > Len(RaceFiber)

\* C14: two fibers that each run `global_counter =+ 1` without
\* synchronisation read and write the counter in separate steps: when both
\* have written, the counter is one more than the larger of the two values
\* read, so it is 2 when one fiber read the other's result and 1 (a lost
\* update) when both read 0.
SharedCounterRace ==
    prog = "race" =>
        /\ global_counter \in 0..2
        /\ (Stored("fiber1") /\ Stored("fiber2")) =>
              /\ global_counter \in {1, 2}
              /\ global_counter =
                    (IF local["fiber1"] >= local["fiber2"]
                     THEN local["fiber1"] ELSE local["fiber2"]) + 1

\* Both fibers read 0 and both wrote 1: one increment is lost.
LostUpdateWitness ==
    /\ prog = "race"
    /\ AllDone
    /\ global_counter = 1

\* The fibers ran one after the other: no increment is lost.
NoLostUpdate ==
    /\ prog = "race"
    /\ AllDone
    /\ global_counter = 2

RangesExpected ==
    << "1", "2", "3", "4", "5", "6", "7", "8", "9", "10",
       "0", "10", "20", "30", "40", "50", "60", "70", "80", "90", "100" >>

IsConsumed(text) == text \in {"Consumed item " \o to_str(i) : i \in 0..9}
IsIteration(text) == text \in {"Background task iteration " \o to_str(i) : i \in 0..9}

\* C18: integer ranges of for loops include both ends and ascend:
\* `for i in 1..10` runs for i = 1, ..., 10, `for i in 0..100 step 10` visits
\* 0, 10, ..., 100, consumer(4) consumes exactly items 1..4 and
\* periodic_task(2000, 5) runs exactly iterations 1..5.
RangesInclusive ==
    /\ prog = "ranges" =>
          /\ IsPrefix(out, RangesExpected)
          /\ status["main"] = "done" => out = RangesExpected
    /\ prog = "producer_consumer" =>
          /\ IsPrefix(SelectSeq(out, IsConsumed),
                      <<"Consumed item 1", "Consumed item 2", "Consumed item 3", "Consumed item 4">>)
          /\ status["consumer_fiber"] = "done" =>
                SelectSeq(out, IsConsumed) =
                    <<"Consumed item 1", "Consumed item 2", "Consumed item 3", "Consumed item 4">>
    /\ prog = "periodic" =>
          /\ IsPrefix(SelectSeq(out, IsIteration),
                      <<"Background task iteration 1", "Background task iteration 2",
                        "Background task iteration 3", "Background task iteration 4",
                        "Background task iteration 5">>)
          /\ status["background"] = "done" => Len(SelectSeq(out, IsIteration)) = 5

\* Both loops of "Numeric Ranges" have run to their end.
RangesWitness ==
    /\ prog = "ranges"
    /\ status["main"] = "done"
    /\ Len(out) = 21
    /\ out[10] = "10"
    /\ out[21] = "100"

\* consumer(4) has finished.
ConsumerWitness ==
    /\ prog = "producer_consumer"
    /\ status["consumer_fiber"] = "done"
    /\ "Consumed item 4" \in Printed

\* The links of a navigation, group after group.
NavLinks(nav) == Flatten([g \in DOMAIN nav |-> nav[g].links])

\* The slugs of a sidebar, group after group, in the order they are written.
SlugsInOrder(sb) ==
    Flatten([g \in DOMAIN sb |-> [i \in DOMAIN sb[g].items |-> sb[g].items[i].slug]])

NoRepeat(seq) == \A i, j \in DOMAIN seq : seq[i] = seq[j] => i = j

\* C20: every slug occurs at most once in the whole sidebar, across all its
\* groups, so every page has at most one navigation entry and the entries,
\* read group after group, put the linked pages in one total order.
SidebarSlugsOnce ==
    /\ pc \in {"configured", "discovered", "done", "failed"} =>
          /\ NoRepeat(SlugsInOrder(cfg.sidebar))
          /\ \A e1, e2 \in SidebarEntries(cfg.sidebar) :
                cfg.sidebar[e1[1]].items[e1[2]].slug = cfg.sidebar[e2[1]].items[e2[2]].slug
                    => e1 = e2
    /\ pc = "done" =>
          /\ NoRepeat([k \in DOMAIN NavLinks(site.nav) |-> NavLinks(site.nav)[k].href])
          /\ \A s \in DOMAIN site.pages :
                Cardinality({k \in DOMAIN NavLinks(site.nav) :
                                NavLinks(site.nav)[k].href = "/" \o s \o "/"}) <= 1

\* A build has generated a navigation of fifteen links to fifteen pages.
SidebarSlugsWitness ==
    /\ pc = "done"
    /\ Len(NavLinks(site.nav)) = 15
    /\ Cardinality(SidebarSlugs(cfg.sidebar)) = 15
    /\ SidebarSlugs(cfg.sidebar) \subseteq DOMAIN site.pages

\* C21: for every sidebar entry the label is the frontmatter title of the
\* content file the entry's slug resolves to ("Variables" for
\* guide/variables, "Async Programming" for advanced/async).
LabelsAreTitles ==
    \A e \in SidebarEntries(Config.sidebar) :
        LET item == Config.sidebar[e[1]].items[e[2]]
        IN  /\ \A f \in Resolving(item.slug) : Title(f) = item.label
            /\ item.slug \in DOMAIN pages => pages[item.slug].title = item.label

\* C22: every site-internal link of a page body points at the slug of a page
\* the site publishes: a content file that exists, is not a draft and has a
\* sidebar entry.
InternalLinksPublished ==
    \A f \in files : \A l \in BodyLinks(f) :
        /\ LinkSlug(l) \in PublishedSlugs(files)
        /\ LinkSlug(l) \in SidebarSlugs(Config.sidebar)

\* C23: no page is an orphan: every published content file has a sidebar
\* entry, and the published slugs are exactly the sidebar's slugs.
NoOrphanPages ==
    files = RepoFiles => PublishedSlugs(files) = SidebarSlugs(Config.sidebar)

BuildStep ==
    (pc # "idle" \/ pc' # "idle") => (files' = files /\ pages' = pages)

SiteOfInputs ==
    /\ cfg \in {NoConfig, Config}
    /\ pc = "done" =>
          /\ DOMAIN site.pages = {Slug(f) : f \in files}
          /\ \A f \in files : site.pages[Slug(f)] = PageOf(f)
          /\ site.nav = Nav(Config.sidebar)
    /\ pc = "failed" =>
          /\ site = NoSite
          /\ err = {[kind |-> "missing-slug", what |-> s] :
                       s \in SidebarSlugs(Config.sidebar) \ {Slug(f) : f \in files}}
                   \cup {[kind |-> "malformed-frontmatter", what |-> f.id] :
                            f \in {g \in files : Malformed(g)}}

-----------------------------------------------------------------------------
(* Properties of the examples.                                             *)

\* C12: `try e` gives the success value of e or makes the enclosing function
\* return e's error at once: do_math and complex_calculation return the
\* error of the first divide that fails and evaluate no later step, and
\* complex_calculation returns ok(step3 * 100) only when its three divides
\* succeed.
TryPropagates ==
    (example = "try" /\ mem.returned) =>
        /\ mem.fn = "do_math" =>
              IF mem.b = 0
              THEN mem.result = Result_err("Cannot divide by zero") /\ mem.divides = 1
              ELSE mem.result = Result_ok((mem.a \div mem.b) + 10) /\ mem.divides = 1
        /\ mem.fn = "complex_calculation" =>
              IF mem.b = 0
              THEN mem.result = Result_err("Cannot divide by zero") /\ mem.divides = 1
              ELSE IF mem.c = 0
              THEN mem.result = Result_err("Cannot divide by zero") /\ mem.divides = 2
              ELSE /\ mem.result = Result_ok((((mem.a \div mem.b) \div mem.c) \div 2) * 100)
                   /\ mem.divides = 3

\* complex_calculation(a, b, 0) with b # 0 has returned: the second divide
\* failed.
TryWitness ==
    /\ example = "try"
    /\ mem.fn = "complex_calculation"
    /\ mem.returned
    /\ mem.b # 0
    /\ mem.c = 0
    /\ ~mem.result.ok

\* complex_calculation(4, 1, 1) has returned ok(200).
TryAllSucceed ==
    /\ example = "try"
    /\ mem.fn = "complex_calculation"
    /\ mem.returned
    /\ mem.a = 4 /\ mem.b = 1 /\ mem.c = 1
    /\ mem.result = Result_ok(200)

\* C13: the arms of a match are tried in the order written and the first
\* that matches wins; a range a..b matches a, b and everything between. So
\* an arm that follows a range covering it is never taken (42 after 40..50,
\* 42 after 0..100), and 21 written before 20..25 is taken for 21.
FirstMatchWins ==
    (example = "match" /\ mem.arm # 0) =>
        LET v == mem.value
            r == mem.result
        IN  /\ mem.fn = "number_problematic" =>
                  /\ r # "the answer"
                  /\ (40 <= v /\ v <= 50) <=> r = "forties"
            /\ mem.fn = "value_problematic" =>
                  /\ r # "the answer"
                  /\ (0 <= v /\ v <= 100) <=> r = "small to medium"
            /\ mem.fn = "number_good" =>
                  /\ v = 42 <=> r = "the answer"
                  /\ (40 <= v /\ v <= 50 /\ v # 42) <=> r = "forties"
            /\ mem.fn = "special" =>
                  /\ v = 21 <=> r = "legal drinking age"
                  /\ (20 <= v /\ v <= 25 /\ v # 21) <=> r = "young adult"
            /\ mem.fn = "grade" =>
                  /\ (0 <= v /\ v <= 59) <=> r = "F"
                  /\ (60 <= v /\ v <= 69) <=> r = "D"
                  /\ (90 <= v /\ v <= 100) <=> r = "A"
                  /\ (v < 0 \/ v > 100) <=> r = "Invalid score"
            /\ mem.fn = "age_group" =>
                  /\ (0 <= v /\ v <= 12) <=> r = "child"
                  /\ (65 <= v /\ v <= 120) <=> r = "senior"
            /\ mem.fn = "value_good" =>
                  /\ (2 <= v /\ v <= 10) <=> r = "small"
                  /\ (11 <= v /\ v <= 100) <=> r = "medium"
                  /\ (v < 0 \/ v > 100) <=> r = "large"

\* 42 has been matched by the range 40..50 written before the arm 42.
FirstMatchWitness ==
    /\ example = "match"
    /\ mem.fn = "number_problematic"
    /\ mem.value = 42
    /\ mem.arm = 1
    /\ mem.result = "forties"

\* The upper end of a range has been matched: 59 is an "F".
RangeEndWitness ==
    /\ example = "match"
    /\ mem.fn = "grade"
    /\ mem.value = 59
    /\ mem.result = "F"

ConnectionStep ==
    (example = "connection" /\ mem'.calls # mem.calls) =>
        /\ mem.state = "disconnected" => mem'.state = "connecting"
        /\ mem.state = "connecting" => mem'.state \in {"connected", "error"}
        /\ mem.state = "connected" => mem'.state = "connected"
        /\ mem.state = "error" => mem'.state = "disconnected"

\* C15: the connection's state is always disconnected, connecting, connected
\* or error; a call takes disconnected to connecting, connecting to connected
\* or to error as connection_successful() decides, connected to connected and
\* error to disconnected.
ConnectionStateMachine ==
    /\ [](example = "connection" => mem.state \in ConnectionState)
    /\ [][ConnectionStep]_vars

\* connect() has been called on a connected connection, after a failed
\* attempt.
ConnectionWitness ==
    /\ example = "connection"
    /\ mem.state = "connected"
    /\ mem.printed = "Already connected"
    /\ mem.failures > 0

\* C16: each closure made by make_counter(start) has a count of its own; a
\* call adds 1 to it and returns the new value, so the n-th call of a
\* counter returns start + n (11, then 12, for make_counter(10)).
CounterCounts ==
    example = "counter" =>
        \A c \in DOMAIN mem :
            /\ mem[c].count = mem[c].start + Len(mem[c].results)
            /\ \A n \in DOMAIN mem[c].results : mem[c].results[n] = mem[c].start + n

\* make_counter(10) has been called twice, the other counter not as often.
CounterWitness ==
    /\ example = "counter"
    /\ mem[1].results = <<11, 12>>
    /\ Len(mem[2].results) = 1

RECURSIVE FirstInvalid(_, _)
FirstInvalid(items, i) ==
    IF i > Len(items) THEN Len(items) + 1
    ELSE IF ~items[i] THEN i
    ELSE FirstInvalid(items, i + 1)

\* C17: process_items stops at the first item whose validate(item) is false
\* and returns false, the items after it being neither validated nor
\* processed; it returns true only when every item validates.
ProcessItemsExitsEarly ==
    (example = "process_items" /\ mem.returned) =>
        LET k == FirstInvalid(mem.items, 1)
        IN  /\ mem.result = (k > Len(mem.items))
            /\ mem.processed = [n \in 1..(k - 1) |-> n]

\* process_items has returned on items of which the second does not
\* validate.
ProcessItemsWitness ==
    /\ example = "process_items"
    /\ mem.returned
    /\ mem.items = <<TRUE, FALSE, TRUE>>

Max(S) == CHOOSE x \in S : \A y \in S : y <= x

\* C19: the Stack is last in, first out: pop returns some(the item pushed
\* last among those not yet popped) and removes it, peek returns the same
\* and removes nothing, both return none on an empty stack and leave it
\* empty, and is_empty() holds exactly when as many items have been popped
\* as pushed.
StackLifo ==
    example = "stack" =>
        /\ Stack_is_empty(mem.items) <=> mem.pushes = mem.pops
        /\ Cardinality(mem.live) = mem.pushes - mem.pops
        /\ Len(mem.items) = Cardinality(mem.live)
        /\ mem.op = "pop" =>
              IF mem.before = <<>>
              THEN mem.result = none /\ mem.items = <<>>
              ELSE /\ mem.result.some
                   /\ mem.result.value \notin mem.live
                   /\ \A x \in mem.live : x < mem.result.value
                   /\ Len(mem.items) = Len(mem.before) - 1
        /\ mem.op = "peek" =>
              /\ mem.items = mem.before
              /\ IF mem.before = <<>>
                 THEN mem.result = none
                 ELSE mem.result = some(Max(mem.live))

\* 1, 2 and 3 have been pushed and pop has returned Some(3).
StackWitness ==
    /\ example = "stack"
    /\ mem.pushes = 3
    /\ mem.op = "pop"
    /\ mem.before = <<1, 2, 3>>
    /\ mem.result = some(3)
    /\ mem.items = <<1, 2>>

\* C25: the age category match maps every age in 0..120 to one of newborn,
\* child, teenager, legal drinking age, adult, senior, and returns "invalid
\* age" only for an age outside 0..120.
AgeCategoryTotal ==
    (example = "match" /\ mem.fn = "category" /\ mem.arm # 0) =>
        /\ (0 <= mem.value /\ mem.value <= 120) =>
              mem.result \in {"newborn", "child", "teenager", "legal drinking age",
                              "adult", "senior"}
        /\ mem.result = "invalid age" => (mem.value < 0 \/ mem.value > 120)

\* The states that some sequence of events reaches from the states of S.
RECURSIVE EventClosure(_)
EventClosure(S) ==
    LET N == S \cup {handle_event(x, e) : x \in S, e \in Event}
    IN  IF N = S THEN S ELSE EventClosure(N)

\* C26: from State::idle every sequence of events keeps the state in idle,
\* running, paused, error; each of the four is reached from idle; from each
\* some sequence of events leads back to idle; and an event that has no arm
\* in the match of the current state leaves the state as it is.
EventStateMachine ==
    example = "handle_event" =>
        /\ mem.state \in State
        /\ EventClosure({"idle"}) = State
        /\ "idle" \in EventClosure({mem.state})
        /\ mem.events # <<>> =>
              /\ mem.state = handle_event(mem.previous, mem.events[Len(mem.events)])
              /\ mem.events[Len(mem.events)] \notin Listed(mem.previous) =>
                    mem.state = mem.previous

\* The machine has failed, been restarted and stopped: start, fail, start,
\* stop.
EventWitness ==
    /\ example = "handle_event"
    /\ mem.events = <<"start", "fail", "start", "stop">>
    /\ mem.previous = "running"
    /\ mem.state = "idle"

\* An event without an arm has been handled in the paused state.
EventIgnoredWitness ==
    /\ example = "handle_event"
    /\ mem.events = <<"start", "pause", "fail">>
    /\ mem.state = "paused"

\* C27: next_light is a permutation of red, yellow, green with the single
\* cycle red -> green -> yellow -> red, so three applications give the light
\* started from; in main's loop, which starts at red, any three consecutive
\* cycles show all three lights.
TrafficLightCycle ==
    example = "traffic_light" =>
        /\ {next_light(l) : l \in TrafficLight} = TrafficLight
        /\ next_light("red") = "green"
        /\ next_light("green") = "yellow"
        /\ next_light("yellow") = "red"
        /\ \A l \in TrafficLight : next_light(next_light(next_light(l))) = l
        /\ mem.shown # <<>> => mem.shown[1] = "red"
        /\ \A k \in DOMAIN mem.shown :
              /\ k + 1 \in DOMAIN mem.shown => mem.shown[k + 1] = next_light(mem.shown[k])
              /\ k + 2 \in DOMAIN mem.shown =>
                    {mem.shown[k], mem.shown[k + 1], mem.shown[k + 2]} = TrafficLight

\* main's loop has run its ten cycles.
TrafficLightWitness ==
    /\ example = "traffic_light"
    /\ mem.cycle = 11
    /\ Len(mem.shown) = 10
    /\ mem.printed[2] = "Cycle 2: GREEN light for 25 seconds"
    /\ mem.printed[10] = "Cycle 10: RED light for 30 seconds"

=============================================================================
